---- MODULE Spec2Model ----
(***************************************************************************)
(* Rotation bot (src/bot.py): help-desk selection, operations assignment,  *)
(* onboarding selection, the history file, and the run of main().          *)
(*                                                                         *)
(* Python strings are modelled as sequences of one-character strings so    *)
(* that casefold, strip and rsplit are computed character by character.    *)
(* A dict is a function on its key set.  random.sample / random.choice /   *)
(* random.shuffle are nondeterministic choices: an operator named          *)
(* ...Outcomes returns the set of every result the call can return.        *)
(***************************************************************************)
EXTENDS Naturals, Sequences, FiniteSets, TLC

VARIABLES
    store,              \* content of HISTORY_FILE
    env,                \* configuration the process runs with
    pc,                 \* position of the running process
    people,             \* main: people
    operations,         \* main: operations
    history,            \* main: history (first result of load_history)
    last_ops,           \* main: last_ops (second result of load_history)
    history_excluded,   \* main: history_excluded
    day_excluded_lower, \* main: day_excluded_lower
    reduced_ops,        \* main: is_reduced_ops_day
    onboarding_type,    \* main: onboarding_type
    remaining,          \* run_selection: remaining (argument of assign_operations)
    selected,           \* main: selected
    assignments,        \* main: assignments
    onboarding_people,  \* main: onboarding_people
    raised,             \* exception raised by the last call, "none" if it returned
    posted,             \* messages handed to requests.post by this process
    delivery,           \* outcome of the webhook request of this process
    store0,             \* content of HISTORY_FILE when the process started
    saved,              \* selections passed to save_history calls that succeeded
    runs                \* locals of the processes that run main side by side

vars ==
    <<store, env, pc, people, operations, history, last_ops,
      history_excluded, day_excluded_lower, reduced_ops, onboarding_type,
      remaining, selected, assignments, onboarding_people, raised, posted,
      delivery, store0, saved, runs>>

---------------------------------------------------------------------------
(* Bounds of the model *)

MaxOps == 3
MaxRoster == 5
MaxSaves == 3
MaxExcluded == 2

---------------------------------------------------------------------------
(* Strings *)

Range(s) == {s[i] : i \in DOMAIN s}

UpperChars == <<"A", "B", "C", "D", "E", "L", "M", "O", "T", "W">>
LowerChars == <<"a", "b", "c", "d", "e", "l", "m", "o", "t", "w">>

\* str.casefold on one character of the alphabet in use
LowerChar(c) ==
    IF \E i \in DOMAIN UpperChars : UpperChars[i] = c
    THEN LowerChars[CHOOSE i \in DOMAIN UpperChars : UpperChars[i] = c]
    ELSE c

\* str.casefold
casefold(s) == [i \in 1..Len(s) |-> LowerChar(s[i])]

\* str.rstrip(chars): drop the trailing characters that are in chars
rstrip(s, chars) ==
    LET keep == {i \in 1..Len(s) : s[i] \notin chars}
        last == IF keep = {} THEN 0 ELSE CHOOSE i \in keep : \A j \in keep : j <= i
    IN SubSeq(s, 1, last)

\* str.lstrip(chars)
lstrip(s, chars) ==
    LET keep == {i \in 1..Len(s) : s[i] \notin chars}
        first == IF keep = {} THEN Len(s) + 1
                 ELSE CHOOSE i \in keep : \A j \in keep : i <= j
    IN SubSeq(s, first, Len(s))

\* str.strip(): whitespace off both ends
strip(s) == lstrip(rstrip(s, {" "}), {" "})

\* s.rsplit(sep, 1)[-1]: what follows the last sep, the whole of s if none
rsplit_last(s, sep) ==
    LET at == {i \in 1..Len(s) : s[i] = sep}
        cut == IF at = {} THEN 0 ELSE CHOOSE i \in at : \A j \in at : j <= i
    IN SubSeq(s, cut + 1, Len(s))

extract_task_name(task) ==
    IF "|" \in Range(task) /\ Len(task) > 0 /\ task[1] = "<"
    THEN strip(rstrip(rsplit_last(task, "|"), {">"}))
    ELSE strip(task)

\* the label save_history stores and assign_operations compares
label(task) == casefold(extract_task_name(task))

---------------------------------------------------------------------------
(* Values of the configuration *)

Al == <<"A", "l">>
al == <<"a", "l">>
AL == <<"A", "L">>
Ed == <<"E", "d">>
Bo == <<"B", "o">>
Cy == <<"C", "y">>
Di == <<"D", "i">>

TA == <<"<", "u", "|", "A", ">">>
TB == <<"B">>
Tb == <<"<", "v", "|", " ", "b", " ", ">">>
TC == <<"C">>
TD == <<"D">>

Tasks == {TA, TB, Tb, TC}

RECURSIVE SeqsUpTo(_, _)
SeqsUpTo(S, n) ==
    IF n = 0 THEN {<<>>}
    ELSE LET shorter == SeqsUpTo(S, n - 1)
         IN shorter \cup {Append(s, x) : s \in {t \in shorter : Len(t) = n - 1}, x \in S}

\* OPERATIONS as get_config_list returns it: any list of tasks, repeats allowed
TaskLists == SeqsUpTo(Tasks, MaxOps)

\* a dict, tagged so that a value that is no dict can be told apart
EmptyDict == [k \in {} |-> <<>>]
Dict(f) == [tag |-> "dict", val |-> f]
NoDict == [tag |-> "none", val |-> EmptyDict]

\* dict.get(key, [])
Get(d, key) == IF key \in DOMAIN d THEN d[key] ELSE <<>>

---------------------------------------------------------------------------
(* random *)

\* random.sample(s, 2): two different positions of s, in any order
Sample2(s) ==
    {<<s[ij[1]], s[ij[2]]>> : ij \in {p \in (DOMAIN s) \X (DOMAIN s) : p[1] # p[2]}}

\* [s[i] for i in keep], order kept: the list comprehensions that filter a list
Select(s, keep) ==
    [n \in 1..Cardinality(keep) |->
        s[CHOOSE i \in keep : Cardinality({j \in keep : j < i}) = n - 1]]

---------------------------------------------------------------------------
(* assign_operations *)

\* fresh = [op for op in operations if extract_task_name(op).casefold() not in prev_tasks]
FreshBad(ops, prev_tasks) == ops

Fresh(ops, prev_tasks) ==
    Select(ops, {i \in DOMAIN ops : label(ops[i]) \notin prev_tasks})

\* the second task when exactly one is fresh
SecondChoicesBad(ops, first) == Range(ops)

SecondChoices(ops, first) == {op \in Range(ops) : op # first}

\* "picked = random.sample(operations, 2)" when no task is fresh
FullListPicksBad(ops) == {<<first, second>> : first \in Range(ops), second \in Range(ops)}

FullListPicks(ops) == Sample2(ops)

\* the pairs one person can be given (the body of the for loop)
Picks(person, ops, ops_map) ==
    LET prev_tasks == Range(Get(ops_map, person))
        fresh == Fresh(ops, prev_tasks)
    IN IF Len(fresh) >= 2 THEN Sample2(fresh)
       ELSE IF Len(fresh) = 1
            THEN UNION {{<<fresh[1], second>>, <<second, fresh[1]>>} :
                        second \in SecondChoices(ops, fresh[1])}
       ELSE FullListPicks(ops)

\* "if not remaining: return {}", tested before the task list is looked at
NothingToAssignBad(rem, ops) == rem = <<>> /\ ops # <<>>

NothingToAssign(rem, ops) == rem = <<>>

\* [operations[0], operations[0]]
OnlyTaskTwiceBad(ops) == <<ops[1]>>

OnlyTaskTwice(ops) == <<ops[1], ops[1]>>

AssignOutcomes(rem, ops, lops) ==
    IF NothingToAssign(rem, ops) THEN {[raised |-> "none", value |-> EmptyDict]}
    ELSE IF ops = <<>> THEN {[raised |-> "ValueError", value |-> EmptyDict]}
    ELSE IF Len(ops) = 1
         THEN {[raised |-> "none",
                value |-> [p \in Range(rem) |-> OnlyTaskTwice(ops)]]}
    ELSE LET ops_map == IF lops.tag = "dict" THEN lops.val ELSE EmptyDict
             pairs == UNION {Picks(p, ops, ops_map) : p \in Range(rem)}
         IN {[raised |-> "none", value |-> f] :
             f \in {g \in [Range(rem) -> pairs] :
                    \A p \in Range(rem) : g[p] \in Picks(p, ops, ops_map)}}

---------------------------------------------------------------------------
(* run_selection *)

\* the keys of name_lookup = {p.casefold(): p for p in people}, in dict order
name_keys(ppl) ==
    Select([i \in DOMAIN ppl |-> casefold(ppl[i])],
           {i \in DOMAIN ppl : \A j \in 1..(i - 1) : casefold(ppl[j]) # casefold(ppl[i])})

\* name_lookup[k]: the last person of the roster with that key
name_lookup(ppl, k) ==
    ppl[CHOOSE i \in DOMAIN ppl :
            /\ casefold(ppl[i]) = k
            /\ \A j \in DOMAIN ppl : casefold(ppl[j]) = k => j <= i]

available_keys(ppl, day_lower) ==
    LET keys == name_keys(ppl)
    IN Select(keys, {i \in DOMAIN keys : keys[i] \notin day_lower})

\* "if len(eligible_keys) < 2"
NeedsFallbackBad(elig) == Len(elig) < 1

NeedsFallback(elig) == Len(elig) < 2

\* "eligible_keys = available_keys[:]"
FallbackKeysBad(ppl, day_lower) == name_keys(ppl)

FallbackKeys(ppl, day_lower) == available_keys(ppl, day_lower)

\* eligible_keys, after the fallback
eligible_keys(ppl, hist_excl, day_lower) ==
    LET history_excluded_lower == {casefold(n) : n \in hist_excl}
        avail == available_keys(ppl, day_lower)
        elig == Select(avail, {i \in DOMAIN avail : avail[i] \notin history_excluded_lower})
    IN IF NeedsFallback(elig) THEN FallbackKeys(ppl, day_lower) ELSE elig

\* shuffled_keys[:num_helpdesk] with num_helpdesk = min(2, len(eligible_keys))
HelpdeskOutcomes(elig) ==
    IF Len(elig) >= 2 THEN Sample2(elig)
    ELSE IF Len(elig) = 1 THEN {<<elig[1]>>}
    ELSE {<<>>}

\* remaining_keys, after the reduced-operations down-selection
RemainingOutcomesBad(avail, selected_keys, reduced) ==
    {Select(avail, {i \in DOMAIN avail : avail[i] \notin Range(selected_keys)})}

RemainingOutcomes(avail, selected_keys, reduced) ==
    LET rest == Select(avail, {i \in DOMAIN avail : avail[i] \notin Range(selected_keys)})
    IN IF reduced /\ Len(rest) > 2 THEN Sample2(rest) ELSE {rest}

\* "remaining_keys = [k for k in available_keys if k not in selected_keys]":
\* the list the help-desk picks are taken out of
OperationsPoolBad(avail, elig) == elig

OperationsPool(avail, elig) == avail

RunSelectionOutcomes(ppl, ops, hist_excl, day_lower, reduced, lops) ==
    LET avail == available_keys(ppl, day_lower)
        elig == eligible_keys(ppl, hist_excl, day_lower)
        names(keys) == [i \in DOMAIN keys |-> name_lookup(ppl, keys[i])]
    IN UNION { UNION { {[raised |-> a.raised,
                         selected |-> names(sk),
                         remaining |-> names(rk),
                         assignments |-> a.value] :
                        a \in AssignOutcomes(names(rk), ops, lops)} :
                      rk \in RemainingOutcomes(OperationsPool(avail, elig), sk, reduced)} :
               sk \in HelpdeskOutcomes(elig)}

\* get_excluded_people
get_excluded_peopleBad(hist) ==
    IF Len(hist) < 3 THEN {} ELSE Range(hist[1]) \cap Range(hist[2])

get_excluded_people(hist) ==
    IF Len(hist) < 2 THEN {} ELSE Range(hist[1]) \cap Range(hist[2])

\* the second result of get_day_exclusions, for the names configured for the day
day_exclusions_lower(excluded_names) == {casefold(n) : n \in excluded_names}

---------------------------------------------------------------------------
(* select_onboarding *)

SelectOnboardingOutcomes(ppl, day_lower) ==
    LET available == Select(ppl, {i \in DOMAIN ppl : casefold(ppl[i]) \notin day_lower})
    IN IF Len(available) = 0 THEN {<<>>}
       ELSE IF Len(available) = 1 THEN {<<available[1]>>}
       ELSE Sample2(available)

---------------------------------------------------------------------------
(* The history file: load_history, save_history *)

\* history[-2:]
Last2(s) == IF Len(s) <= 2 THEN s ELSE SubSeq(s, Len(s) - 1, Len(s))

\* kind: "missing" (no file), "unreadable" (read_text raises OSError),
\*   "undecodable" (bytes that are no text), "notjson" (text that is no JSON),
\*   "nonobject" (JSON whose top level is a list, a number, a string or null),
\*   "object" (a JSON object).
\* For an object, sel_tag / ops_tag tell what last_selections / last_ops are:
\*   "absent", "list", "str" (sel is the string), "dict", "other".
StoreValue(kind, sel_tag, sel, ops_tag, ops) ==
    [kind |-> kind, sel_tag |-> sel_tag, sel |-> sel, ops_tag |-> ops_tag, ops |-> ops]

NoObject(kind) == StoreValue(kind, "absent", <<>>, "absent", EmptyDict)

MissingStore == NoObject("missing")

\* json.dumps({"last_selections": ..., "last_ops": ...})
HistoryObject(selections, ops) == StoreValue("object", "list", selections, "dict", ops)

Returned(selections, selections_tag, ops) ==
    [raised |-> "none", selections |-> selections,
     selections_tag |-> selections_tag, last_ops |-> ops]

Raised(exception) ==
    [raised |-> exception, selections |-> <<>>,
     selections_tag |-> "list", last_ops |-> EmptyDict]

load_history(st) ==
    IF st.kind = "missing" THEN Returned(<<>>, "list", EmptyDict)
    ELSE IF st.kind \in {"unreadable", "notjson"} THEN Returned(<<>>, "list", EmptyDict)
    ELSE IF st.kind = "undecodable" THEN Raised("UnicodeDecodeError")
    ELSE IF st.kind = "nonobject" THEN Raised("AttributeError")
    ELSE IF st.sel_tag = "other" THEN Raised("TypeError")
    ELSE Returned(IF st.sel_tag = "absent" THEN <<>> ELSE Last2(st.sel),
                  IF st.sel_tag = "str" THEN "str" ELSE "list",
                  IF st.ops_tag = "dict" THEN st.ops ELSE EmptyDict)

\* new_history = (history + [selected])[-2:]
new_historyBad(sel, hist) == Append(hist, sel)

new_history(sel, hist) == Last2(Append(hist, sel))

\* ops, as save_history computes it
RawOps(asg, prev_ops) == IF DOMAIN asg # {} THEN asg ELSE prev_ops

MergedOps(asg, prev_ops) ==
    [person \in DOMAIN asg \cup DOMAIN prev_ops |->
        IF person \in DOMAIN asg
        THEN [i \in DOMAIN asg[person] |-> label(asg[person][i])]
        ELSE prev_ops[person]]

new_ops(asg, prev_ops) ==
    IF DOMAIN asg # {}
    THEN [person \in DOMAIN asg |->
            [i \in DOMAIN asg[person] |-> label(asg[person][i])]]
    ELSE prev_ops

\* what HISTORY_FILE.write_text can do: write the text; fail before the file
\* is opened (read-only file system); fail after open() has truncated it
WriteOutcomes(st, content) ==
    {[raised |-> "none", store |-> content],
     [raised |-> "OSError", store |-> st],
     [raised |-> "OSError", store |-> NoObject("notjson")]}

\* save_history; hist_tag "str" is a history that is no list (str + list)
SaveOutcomes(st, sel, hist, hist_tag, asg, prev_ops) ==
    IF hist_tag # "list" THEN {[raised |-> "TypeError", store |-> st]}
    ELSE WriteOutcomes(st, HistoryObject(new_history(sel, hist), new_ops(asg, prev_ops)))

---------------------------------------------------------------------------
(* Values the variables hold before a call has set them *)

NoEnv == [run_now |-> FALSE]

\* no process runs side by side with another
NoRuns == <<>>

\* the results of a process that has not computed any
NoResults ==
    /\ onboarding_type = ""
    /\ remaining = <<>>
    /\ selected = <<>>
    /\ assignments = EmptyDict
    /\ onboarding_people = <<>>
    /\ raised = "none"
    /\ posted = <<>>
    /\ delivery = "none"

---------------------------------------------------------------------------
(* assign_operations on its own: every call with arguments from bounded sets *)

AssignPeople == <<Al, Ed>>

PrevLabels == {<<>>, <<<<"a">>>>, <<<<"b">>>>, <<<<"c">>>>,
               <<<<"a">>, <<"b">>>>, <<<<"b">>, <<"c">>>>, <<<<"c">>, <<"a">>>>}

LastOpsInputs ==
    {NoDict, Dict(EmptyDict)}
        \cup {Dict([k \in {key} |-> prev]) : key \in {Al, al}, prev \in PrevLabels}

AssignInit ==
    /\ NoResults
    /\ runs = NoRuns
    /\ store = MissingStore /\ store0 = MissingStore /\ env = NoEnv /\ saved = <<>>
    /\ history = <<>>
    /\ history_excluded = {} /\ day_excluded_lower = {} /\ reduced_ops = FALSE
    /\ pc = "args"
    /\ \E n \in 0..Len(AssignPeople), ops \in TaskLists, lops \in LastOpsInputs :
        /\ people = SubSeq(AssignPeople, 1, n)
        /\ operations = ops
        /\ last_ops = lops

CallAssignOperations ==
    /\ pc = "args"
    /\ \E r \in AssignOutcomes(people, operations, last_ops) :
        /\ raised' = r.raised
        /\ assignments' = r.value
    /\ remaining' = people
    /\ pc' = "returned"
    /\ UNCHANGED <<store, env, people, operations, history, last_ops,
                   history_excluded, day_excluded_lower, reduced_ops,
                   onboarding_type, selected, onboarding_people, posted,
                   delivery, store0, saved, runs>>

AssignNext == CallAssignOperations

SpecAssign == AssignInit /\ [][AssignNext]_vars

---------------------------------------------------------------------------
(* run_selection and select_onboarding on their own *)

RosterBase == <<Al, al, Ed, Bo, Cy, Di>>

Reverse(s) == [i \in DOMAIN s |-> s[Len(s) + 1 - i]]

\* PEOPLE as get_config_list returns it: stretches of RosterBase, either way round
Rosters ==
    {SubSeq(b, i, j) : b \in {RosterBase, Reverse(RosterBase)},
                       i \in DOMAIN RosterBase, j \in DOMAIN RosterBase}
        \ {r \in {SubSeq(b, i, j) : b \in {RosterBase, Reverse(RosterBase)},
                                    i \in DOMAIN RosterBase, j \in DOMAIN RosterBase} :
               Len(r) = 0 \/ Len(r) > MaxRoster}

UpTo(S, n) == {T \in SUBSET S : Cardinality(T) <= n}

\* selections as earlier runs can have stored them, and the histories
\* load_history can return
StoredSelections == {<<>>, <<al>>, <<Al, Ed>>, <<Ed, al>>, <<Al, Bo>>}

Histories == SeqsUpTo(StoredSelections, 2)

\* names as the day's exclusion list can hold them
DayNames == {AL, Cy}

SelectInit ==
    /\ NoResults
    /\ runs = NoRuns
    /\ store = MissingStore /\ store0 = MissingStore /\ env = NoEnv /\ saved = <<>>
    /\ selected = <<>> /\ assignments = EmptyDict /\ onboarding_people = <<>>
    /\ raised = "none" /\ posted = <<>> /\ delivery = "none"
    /\ last_ops = Dict(EmptyDict)
    /\ pc = "args"
    /\ people \in Rosters
    /\ operations \in {<<>>, <<TA>>}
    /\ history \in Histories
    /\ history_excluded = {}
    /\ day_excluded_lower \in {day_exclusions_lower(names) : names \in UpTo(DayNames, MaxExcluded)}
    /\ reduced_ops \in BOOLEAN

\* history_excluded = get_excluded_people(history), then run_selection
CallRunSelection ==
    /\ pc = "args"
    /\ history_excluded' = get_excluded_people(history)
    /\ \E r \in RunSelectionOutcomes(people, operations, history_excluded',
                                      day_excluded_lower, reduced_ops, last_ops) :
        /\ raised' = r.raised
        /\ remaining' = r.remaining
        /\ selected' = IF r.raised = "none" THEN r.selected ELSE <<>>
        /\ assignments' = r.assignments
    /\ pc' = "selection"
    /\ UNCHANGED <<store, env, people, operations, history, last_ops,
                   day_excluded_lower, reduced_ops,
                   onboarding_type, onboarding_people, posted, delivery,
                   store0, saved, runs>>

CallSelectOnboarding ==
    /\ pc = "args"
    /\ onboarding_people' \in SelectOnboardingOutcomes(people, day_excluded_lower)
    /\ pc' = "onboarding"
    /\ UNCHANGED <<store, env, people, operations, history, last_ops,
                   history_excluded, day_excluded_lower, reduced_ops,
                   onboarding_type, remaining, selected, assignments, raised,
                   posted, delivery, store0, saved, runs>>

SelectNext == CallRunSelection \/ CallSelectOnboarding

SpecSelect == SelectInit /\ [][SelectNext]_vars

---------------------------------------------------------------------------
(* load_history and save_history on their own: a file that is missing or   *)
(* damaged at first, then loaded and saved in turn                         *)

DamagedStores ==
    {NoObject(k) : k \in {"missing", "unreadable", "undecodable", "notjson", "nonobject"}}
        \cup {StoreValue("object", t, <<>>, "absent", EmptyDict) :
                 t \in {"absent", "list", "other"}}
        \cup {StoreValue("object", "str", <<"x", "y", "z">>, "absent", EmptyDict)}
        \cup {StoreValue("object", "list", <<>>, t, EmptyDict) : t \in {"dict", "other"}}
        \cup {StoreValue("object", "absent", <<>>, "dict", Bo :> <<<<"a">>, <<"b">>>>)}

SaveSelections == {<<>>, <<Al>>, <<Al, Ed>>, <<Ed, Al>>, <<Bo, Cy>>}

SaveAssignments == {EmptyDict, Bo :> <<TA, Tb>>, Al :> <<TC, TA>>}

HistoryInit ==
    /\ NoResults
    /\ runs = NoRuns
    /\ store \in DamagedStores /\ store0 = store /\ env = NoEnv /\ saved = <<>>
    /\ people = <<>> /\ operations = <<>> /\ history = <<>>
    /\ history_excluded = {} /\ day_excluded_lower = {} /\ reduced_ops = FALSE
    /\ selected = <<>> /\ assignments = EmptyDict /\ onboarding_people = <<>>
    /\ raised = "none" /\ posted = <<>> /\ delivery = "none"
    /\ last_ops = Dict(EmptyDict)
    /\ pc = "start"

CallLoadHistory ==
    /\ pc \in {"start", "saved"}
    /\ LET r == load_history(store)
       IN /\ raised' = r.raised
          /\ history' = r.selections
          /\ last_ops' = Dict(r.last_ops)
          /\ pc' = IF r.raised # "none" THEN "load_raised"
                    ELSE IF r.selections_tag = "str" THEN "loaded_str"
                    ELSE "loaded"
    /\ UNCHANGED <<store, env, people, operations, history_excluded,
                   day_excluded_lower, reduced_ops, onboarding_type, remaining,
                   selected, assignments, onboarding_people, posted, delivery,
                   store0, saved, runs>>

CallSaveHistory ==
    /\ pc \in {"loaded", "loaded_str"}
    /\ Len(saved) < MaxSaves
    /\ \E sel \in SaveSelections, asg \in SaveAssignments :
        \E w \in SaveOutcomes(store, sel, history,
                              IF pc = "loaded" THEN "list" ELSE "str", asg, last_ops.val) :
            /\ selected' = sel
            /\ assignments' = asg
            /\ raised' = w.raised
            /\ store' = w.store
            /\ saved' = IF w.raised = "none" THEN Append(saved, sel)
                         ELSE IF w.store = store THEN saved
                         ELSE <<>>
    /\ pc' = "saved"
    /\ UNCHANGED <<env, people, operations, history, last_ops, history_excluded,
                   day_excluded_lower, reduced_ops, onboarding_type, remaining,
                   onboarding_people, posted, delivery, store0, runs>>

HistoryNext == CallLoadHistory \/ CallSaveHistory

SpecHistory == HistoryInit /\ [][HistoryNext]_vars

---------------------------------------------------------------------------
(* main: one process per trigger, one after the other, sharing HISTORY_FILE *)

Mo == <<"M", "o">>
MO == <<"M", "O">>
Tu == <<"T", "u">>
We == <<"W", "e">>

\* get_config_list: the list of the environment, the module's list if it is empty
get_config_list(items, default_list) == IF items # <<>> THEN items ELSE default_list

\* get_onboarding_config, on the entries of the schedule split at ","; an
\* entry is <<day, type>>, or <<text>> when it holds no ":"
LastMatchingEntry(schedule, today) ==
    LET matching == {i \in DOMAIN schedule :
                        /\ Len(schedule[i]) = 2
                        /\ casefold(strip(schedule[i][1])) = casefold(today)}
    IN IF matching = {} THEN ""
       ELSE schedule[CHOOSE i \in matching : \A j \in matching : j <= i][2]

RECURSIVE get_onboarding_config(_, _)
get_onboarding_config(schedule, today) ==
    IF schedule = <<>> THEN ""
    ELSE IF Len(Head(schedule)) = 2 /\ casefold(strip(Head(schedule)[1])) = casefold(today)
         THEN Head(schedule)[2]
    ELSE get_onboarding_config(Tail(schedule), today)

\* format_message: the blocks of the text
format_message(sel, asg, onb_people, onb_type) ==
    [service_desk |-> sel,
     operations |-> asg,
     onboarding |-> IF onb_people # <<>>
                    THEN <<[type |-> onb_type, people |-> onb_people]>>
                    ELSE <<>>]

\* send_to_slack: what it posts and how the request ends
SendOutcomes(webhook_url_set, message) ==
    IF ~webhook_url_set THEN {[posted |-> <<>>, delivery |-> "skipped"]}
    ELSE {[posted |-> <<message>>, delivery |-> d] : d \in {"ok", "failed"}}

\* where main is after send_to_slack has returned
AfterSendBad(outcome) == IF outcome = "failed" THEN "crashed" ELSE "sent"

AfterSend(outcome) == "sent"

\* where main is after "except ValueError": it returns
AfterConfigurationErrorBad == "selected"

AfterConfigurationError == "aborted"

\* The environment of a process.  PEOPLE and OPERATIONS are the lists of the
\* module, people_env and operations_env those of the environment variables.
Environment(run_now, ppl, ops, today, excluded, webhook) ==
    [run_now |-> run_now,
     PEOPLE |-> ppl, people_env |-> <<>>,
     OPERATIONS |-> ops, operations_env |-> <<>>,
     today |-> today,
     day_exclusions |-> excluded,
     reduced_ops_days |-> {Mo},
     onboarding_schedule |-> <<<<MO, "FTE">>, <<Mo, "Contractor">>, <<Tu>>, <<Tu, "Contractor">>>>,
     webhook_url_set |-> webhook]

Environments ==
    {Environment(TRUE, <<Al, Ed, Bo>>, <<TA, Tb>>, We, {}, TRUE),
     Environment(TRUE, <<Al, Ed, Bo>>, <<TA>>, Mo, {AL}, TRUE),
     Environment(TRUE, <<Al, Ed, Bo>>, <<TA>>, Mo, {AL}, FALSE),
     Environment(TRUE, <<Al, Ed, Bo>>, <<TA>>, Tu, {AL, Ed}, TRUE),
     Environment(TRUE, <<Al, Ed, Bo>>, <<>>, We, {}, TRUE),
     Environment(TRUE, <<Al, Ed, Bo>>, <<>>, Mo, {AL, Ed, Bo}, TRUE),
     Environment(TRUE, <<>>, <<TA>>, We, {}, TRUE),
     Environment(FALSE, <<Al, Ed, Bo>>, <<TA>>, We, {}, TRUE)}

InitialStores == {MissingStore, NoObject("notjson"), NoObject("nonobject")}

Init ==
    /\ NoResults
    /\ runs = NoRuns
    /\ store \in InitialStores /\ store0 = store /\ env = NoEnv /\ saved = <<>>
    /\ people = <<>> /\ operations = <<>> /\ history = <<>>
    /\ history_excluded = {} /\ day_excluded_lower = {} /\ reduced_ops = FALSE
    /\ selected = <<>> /\ assignments = EmptyDict /\ onboarding_people = <<>>
    /\ raised = "none" /\ posted = <<>> /\ delivery = "none"
    /\ last_ops = Dict(EmptyDict)
    /\ pc = "idle"

\* main, lines 302-313: the time gate and the two lists
MainStart ==
    /\ pc = "idle"
    /\ \E e \in Environments :
        /\ env' = e
        /\ people' = IF e.run_now THEN get_config_list(e.people_env, e.PEOPLE) ELSE <<>>
        /\ operations' = IF e.run_now THEN get_config_list(e.operations_env, e.OPERATIONS)
                          ELSE <<>>
        /\ pc' = IF ~e.run_now THEN "skipped"
                  ELSE IF get_config_list(e.people_env, e.PEOPLE) = <<>> THEN "skipped"
                  ELSE "started"
    /\ store0' = store
    /\ UNCHANGED <<store, history, last_ops, history_excluded, day_excluded_lower,
                   reduced_ops, onboarding_type, remaining, selected, assignments,
                   onboarding_people, raised, posted, delivery, saved, runs>>

\* main, lines 315-331: the history, the two exclusions, the kind of day
MainLoad ==
    /\ pc = "started"
    /\ LET r == load_history(store)
       IN /\ raised' = r.raised
          /\ history' = r.selections
          /\ last_ops' = Dict(r.last_ops)
          /\ history_excluded' =
                 IF r.raised = "none" THEN get_excluded_people(r.selections) ELSE {}
          /\ pc' = IF r.raised = "none" THEN "loaded" ELSE "crashed"
          /\ day_excluded_lower' =
                 IF r.raised = "none" THEN day_exclusions_lower(env.day_exclusions) ELSE {}
          /\ reduced_ops' =
                 /\ r.raised = "none"
                 /\ casefold(env.today) \in {casefold(d) : d \in env.reduced_ops_days}
    /\ UNCHANGED <<store, env, people, operations, onboarding_type, remaining,
                   selected, assignments, onboarding_people, posted, delivery,
                   store0, saved, runs>>

\* main, lines 333-339: run_selection, and the return on a ValueError
MainSelect ==
    /\ pc = "loaded"
    /\ \E r \in RunSelectionOutcomes(people, operations, history_excluded,
                                      day_excluded_lower, reduced_ops, last_ops) :
        /\ raised' = r.raised
        /\ remaining' = r.remaining
        /\ selected' = IF r.raised = "none" THEN r.selected ELSE <<>>
        /\ assignments' = r.assignments
        /\ pc' = IF r.raised = "none" THEN "selected" ELSE AfterConfigurationError
    /\ UNCHANGED <<store, env, people, operations, history, last_ops,
                   history_excluded, day_excluded_lower, reduced_ops,
                   onboarding_type, onboarding_people, posted, delivery,
                   store0, saved, runs>>

\* main, lines 341-346: the onboarding of the day
MainOnboarding ==
    /\ pc = "selected"
    /\ onboarding_type' = get_onboarding_config(env.onboarding_schedule, env.today)
    /\ IF onboarding_type' # ""
       THEN onboarding_people' \in SelectOnboardingOutcomes(people, day_excluded_lower)
       ELSE onboarding_people' = <<>>
    /\ pc' = "onboarded"
    /\ UNCHANGED <<store, env, people, operations, history, last_ops,
                   history_excluded, day_excluded_lower, reduced_ops, remaining,
                   selected, assignments, raised, posted, delivery, store0, saved, runs>>

\* main, lines 348-349: the message and its delivery
MainSend ==
    /\ pc = "onboarded"
    /\ \E r \in SendOutcomes(env.webhook_url_set,
                              format_message(selected, assignments,
                                             onboarding_people, onboarding_type)) :
        /\ posted' = r.posted
        /\ delivery' = r.delivery
        /\ pc' = AfterSend(r.delivery)
    /\ UNCHANGED <<store, env, people, operations, history, last_ops,
                   history_excluded, day_excluded_lower, reduced_ops,
                   onboarding_type, remaining, selected, assignments,
                   onboarding_people, raised, store0, saved, runs>>

\* where main is after save_history: "except OSError" logs and main returns
AfterSaveBad(exception) == IF exception = "none" THEN "done" ELSE "crashed"

AfterSave(exception) == IF exception \in {"none", "OSError"} THEN "done" ELSE "crashed"

\* main, lines 351-355: the history is saved, an OSError is logged
MainSave ==
    /\ pc = "sent"
    /\ \E w \in SaveOutcomes(store, selected, history, "list", assignments, last_ops.val) :
        /\ raised' = w.raised
        /\ store' = w.store
        /\ pc' = AfterSave(w.raised)
    /\ UNCHANGED <<env, people, operations, history, last_ops, history_excluded,
                   day_excluded_lower, reduced_ops, onboarding_type, remaining,
                   selected, assignments, onboarding_people, posted, delivery,
                   store0, saved, runs>>

\* the process is over; the next trigger starts a new one
NextTrigger ==
    /\ pc \in {"skipped", "aborted", "crashed", "done"}
    /\ onboarding_type' = "" /\ remaining' = <<>>
    /\ env' = NoEnv
    /\ people' = <<>> /\ operations' = <<>> /\ history' = <<>>
    /\ history_excluded' = {} /\ day_excluded_lower' = {} /\ reduced_ops' = FALSE
    /\ selected' = <<>> /\ assignments' = EmptyDict /\ onboarding_people' = <<>>
    /\ raised' = "none" /\ posted' = <<>> /\ delivery' = "none"
    /\ last_ops' = Dict(EmptyDict)
    /\ store0' = store
    /\ pc' = "idle"
    /\ UNCHANGED <<store, saved, runs>>

Next ==
    \/ MainStart
    \/ MainLoad
    \/ MainSelect
    \/ MainOnboarding
    \/ MainSend
    \/ MainSave
    \/ NextTrigger

Spec == Init /\ [][Next]_vars

---------------------------------------------------------------------------
(* Two processes of main side by side on one HISTORY_FILE.  A process      *)
(* reads the file once (load_history), computes, and writes it once        *)
(* (save_history); nothing in between touches the file.                    *)

Processes == {1, 2}

IdleRun ==
    [pc |-> "idle", history |-> <<>>, last_ops |-> EmptyDict, selected |-> <<>>,
     assignments |-> EmptyDict, raised |-> "none", seen |-> 0]

\* the file as earlier runs of the program leave it
ConcurrentStores ==
    {MissingStore, HistoryObject(<<<<Al, Ed>>>>, Bo :> <<<<"a">>, <<"b">>>>)}

ConcurrentInit ==
    /\ NoResults
    /\ runs = [p \in Processes |-> IdleRun]
    /\ store \in ConcurrentStores /\ store0 = store /\ env = NoEnv /\ saved = <<>>
    /\ people = <<Al, Ed, Bo>>
    /\ operations \in {<<TA>>, <<TA, Tb>>}
    /\ history = <<>> /\ last_ops = Dict(EmptyDict)
    /\ history_excluded = {} /\ day_excluded_lower = {} /\ reduced_ops = FALSE
    /\ pc = "concurrent"

\* main, lines 315-316, in process p
RunLoad(p) ==
    /\ runs[p].pc = "idle"
    /\ LET r == load_history(store)
       IN runs' = [runs EXCEPT ![p] =
                      [@ EXCEPT !.pc = IF r.raised = "none" THEN "loaded" ELSE "crashed",
                                !.raised = r.raised,
                                !.history = r.selections,
                                !.last_ops = r.last_ops,
                                !.seen = Len(saved)]]
    /\ UNCHANGED <<store, env, pc, people, operations, history, last_ops,
                   history_excluded, day_excluded_lower, reduced_ops,
                   onboarding_type, remaining, selected, assignments,
                   onboarding_people, raised, posted, delivery, store0, saved>>

\* main, lines 318-349, in process p: the selection; the message and its
\* delivery leave the file and the locals alone
RunSelect(p) ==
    /\ runs[p].pc = "loaded"
    /\ \E r \in RunSelectionOutcomes(people, operations,
                                      get_excluded_people(runs[p].history),
                                      day_excluded_lower, reduced_ops,
                                      Dict(runs[p].last_ops)) :
        runs' = [runs EXCEPT ![p] =
                    [@ EXCEPT !.pc = IF r.raised = "none" THEN "sent"
                                     ELSE AfterConfigurationError,
                              !.raised = r.raised,
                              !.selected = r.selected,
                              !.assignments = r.assignments]]
    /\ UNCHANGED <<store, env, pc, people, operations, history, last_ops,
                   history_excluded, day_excluded_lower, reduced_ops,
                   onboarding_type, remaining, selected, assignments,
                   onboarding_people, raised, posted, delivery, store0, saved>>

\* the history main passes to save_history: the list it loaded at its start
SavedHistoryBad(loaded, st) == load_history(st).selections

SavedHistory(loaded, st) == loaded

\* main, lines 351-355, in process p
RunSave(p) ==
    /\ runs[p].pc = "sent"
    /\ \E w \in SaveOutcomes(store, runs[p].selected,
                              SavedHistory(runs[p].history, store), "list",
                              runs[p].assignments, runs[p].last_ops) :
        /\ store' = w.store
        /\ saved' = IF w.raised = "none" THEN Append(saved, runs[p].selected) ELSE saved
        /\ runs' = [runs EXCEPT ![p] =
                       [@ EXCEPT !.pc = AfterSave(w.raised), !.raised = w.raised]]
    /\ UNCHANGED <<env, pc, people, operations, history, last_ops,
                   history_excluded, day_excluded_lower, reduced_ops,
                   onboarding_type, remaining, selected, assignments,
                   onboarding_people, raised, posted, delivery, store0>>

ConcurrentNext == \E p \in Processes : RunLoad(p) \/ RunSelect(p) \/ RunSave(p)

SpecConcurrent == ConcurrentInit /\ [][ConcurrentNext]_vars

---------------------------------------------------------------------------
(* Runs of main one after the other under one configuration that does not  *)
(* change: a step is a whole process, from should_run_now to its return.   *)

\* everything one process of main can do with environment e on file st
MainOutcomes(e, st) ==
    LET ppl == get_config_list(e.people_env, e.PEOPLE)
        ops == get_config_list(e.operations_env, e.OPERATIONS)
        loaded == load_history(st)
        excluded_lower == day_exclusions_lower(e.day_exclusions)
        is_reduced == casefold(e.today) \in {casefold(d) : d \in e.reduced_ops_days}
        onb_type == get_onboarding_config(e.onboarding_schedule, e.today)
        nothing == [raised |-> "none", selected |-> <<>>, remaining |-> <<>>,
                    assignments |-> EmptyDict]
        unsent == [posted |-> <<>>, delivery |-> "none"]
        Outcome(at, hist, lops, sel, type, onb, sent, exception, st_after) ==
            [pc |-> at, history |-> hist, last_ops |-> lops,
             history_excluded |-> IF at \in {"skipped", "crashed"} /\ sent = unsent
                                      /\ sel = nothing /\ exception # "TypeError"
                                  THEN {} ELSE get_excluded_people(hist),
             selected |-> IF sel.raised = "none" THEN sel.selected ELSE <<>>,
             remaining |-> sel.remaining,
             assignments |-> sel.assignments,
             onboarding_type |-> type, onboarding_people |-> onb,
             posted |-> sent.posted, delivery |-> sent.delivery,
             raised |-> exception, store |-> st_after]
    IN IF ~e.run_now \/ ppl = <<>>
       THEN {Outcome("skipped", <<>>, EmptyDict, nothing, "", <<>>, unsent, "none", st)}
       ELSE IF loaded.raised # "none"
       THEN {Outcome("crashed", <<>>, EmptyDict, nothing, "", <<>>, unsent, loaded.raised, st)}
       ELSE UNION {
           IF sel.raised # "none"
           THEN {Outcome(AfterConfigurationError, loaded.selections, loaded.last_ops,
                         sel, "", <<>>, unsent, sel.raised, st)}
           ELSE UNION { UNION {
               {Outcome(AfterSave(w.raised), loaded.selections, loaded.last_ops,
                        sel, onb_type, onb, sent, w.raised, w.store) :
                w \in SaveOutcomes(st, sel.selected, loaded.selections,
                                   loaded.selections_tag, sel.assignments,
                                   loaded.last_ops)} :
               sent \in SendOutcomes(e.webhook_url_set,
                                     format_message(sel.selected, sel.assignments,
                                                    onb, onb_type))} :
               onb \in IF onb_type # ""
                       THEN SelectOnboardingOutcomes(ppl, excluded_lower)
                       ELSE {<<>>}} :
           sel \in RunSelectionOutcomes(ppl, ops, get_excluded_people(loaded.selections),
                                        excluded_lower, is_reduced,
                                        Dict(loaded.last_ops))}

\* configurations: 3 people and 4 tasks with 4 labels; 4 people; 4 people of
\* whom one is left out every day; 5 people
FixedEnvironments ==
    {Environment(TRUE, <<Al, Ed, Bo>>, <<TA, TB, TC, TD>>, We, {}, FALSE),
     Environment(TRUE, <<Al, Ed, Bo, Cy>>, <<TA>>, We, {}, FALSE),
     Environment(TRUE, <<Al, Ed, Bo, Cy>>, <<TA>>, We, {Cy}, FALSE),
     Environment(TRUE, <<Al, Ed, Bo, Cy, Di>>, <<TA>>, We, {}, FALSE)}

\* what a process that has ended leaves in the log "saved"
RunLog == [selected |-> selected, assignments |-> assignments]

\* the log keeps the selections of two runs and the assignments of the last
Older(log) == [i \in DOMAIN log |-> [log[i] EXCEPT !.assignments = EmptyDict]]

RunsInit ==
    /\ NoResults
    /\ runs = NoRuns
    /\ store = MissingStore /\ store0 = store /\ saved = <<>>
    /\ env \in FixedEnvironments
    /\ people = <<>> /\ operations = <<>> /\ history = <<>>
    /\ history_excluded = {} /\ day_excluded_lower = {} /\ reduced_ops = FALSE
    /\ last_ops = Dict(EmptyDict)
    /\ pc = "idle"

\* one process of main, start to end
WholeRun ==
    /\ pc = "idle"
    /\ \E o \in MainOutcomes(env, store) :
        /\ pc' = o.pc
        /\ history' = o.history
        /\ last_ops' = Dict(o.last_ops)
        /\ history_excluded' = o.history_excluded
        /\ selected' = o.selected
        /\ remaining' = o.remaining
        /\ assignments' = o.assignments
        /\ onboarding_type' = o.onboarding_type
        /\ onboarding_people' = o.onboarding_people
        /\ posted' = o.posted
        /\ delivery' = o.delivery
        /\ raised' = o.raised
        /\ store' = o.store
    /\ people' = get_config_list(env.people_env, env.PEOPLE)
    /\ operations' = get_config_list(env.operations_env, env.OPERATIONS)
    /\ day_excluded_lower' = day_exclusions_lower(env.day_exclusions)
    /\ reduced_ops' = (casefold(env.today) \in {casefold(d) : d \in env.reduced_ops_days})
    /\ store0' = store
    /\ UNCHANGED <<env, saved, runs>>

\* the process has ended with its record written: its locals are gone, the
\* log "saved" keeps what it did, and the next trigger can start a process
RunEnds ==
    /\ pc = "done" /\ raised = "none"
    /\ saved' = Last2(Append(Older(saved), RunLog))
    /\ onboarding_type' = "" /\ remaining' = <<>>
    /\ people' = <<>> /\ operations' = <<>> /\ history' = <<>>
    /\ history_excluded' = {} /\ day_excluded_lower' = {} /\ reduced_ops' = FALSE
    /\ selected' = <<>> /\ assignments' = EmptyDict /\ onboarding_people' = <<>>
    /\ raised' = "none" /\ posted' = <<>> /\ delivery' = "none"
    /\ last_ops' = Dict(EmptyDict)
    /\ store0' = store
    /\ pc' = "idle"
    /\ UNCHANGED <<store, env, runs>>

RunsNext == WholeRun \/ RunEnds

SpecRuns == RunsInit /\ [][RunsNext]_vars

---------------------------------------------------------------------------
(* Claims *)

\* the labels stored for a person in the last_ops argument
StoredLabels(person) ==
    IF last_ops.tag = "dict" /\ person \in DOMAIN last_ops.val
    THEN Range(last_ops.val[person]) ELSE {}

\* the positions of the task list whose task is fresh for a person
FreshPositions(person) ==
    {i \in DOMAIN operations : label(operations[i]) \notin StoredLabels(person)}

\* C4: with a non-empty task list, every person passed to assign_operations is
\* a key of the result, nobody else is, and the value is 2 tasks of the list;
\* with a one-task list the value is that task twice.
C4_EveryRemainingPersonGetsTwoTasks ==
    (pc = "returned" /\ operations # <<>>) =>
        /\ raised = "none"
        /\ DOMAIN assignments = Range(remaining)
        /\ \A person \in Range(remaining) :
            /\ Len(assignments[person]) = 2
            /\ Range(assignments[person]) \subseteq Range(operations)
            /\ Len(operations) = 1 =>
                   assignments[person] = <<operations[1], operations[1]>>

C4_Witness ==
    /\ pc = "returned"
    /\ Len(remaining) = 2
    /\ Len(operations) = 3
    /\ StoredLabels(Al) # {}
    /\ DOMAIN assignments = {Al, Ed}
    /\ assignments[Al] # assignments[Ed]

\* C5: with at least 2 tasks, a person for whom exactly one task of the list is
\* fresh is given that task and, with it, a task of the list other than it.
C5_SingleFreshTaskIsAssigned ==
    (pc = "returned" /\ Len(operations) >= 2) =>
        \A person \in Range(remaining) :
            Cardinality(FreshPositions(person)) = 1 =>
                LET fresh == operations[CHOOSE i \in FreshPositions(person) : TRUE]
                    pair == assignments[person]
                IN /\ Len(pair) = 2
                   /\ \/ pair[1] = fresh /\ pair[2] # fresh /\ pair[2] \in Range(operations)
                      \/ pair[2] = fresh /\ pair[1] # fresh /\ pair[1] \in Range(operations)

C5_Witness ==
    /\ pc = "returned"
    /\ Len(operations) = 3
    /\ Al \in Range(remaining)
    /\ Cardinality(FreshPositions(Al)) = 1
    /\ assignments[Al][2] = operations[CHOOSE i \in FreshPositions(Al) : TRUE]
    /\ label(assignments[Al][1]) \in StoredLabels(Al)

\* C8: assign_operations raises the configuration error exactly when the task
\* list is empty and somebody remains; with nobody remaining it returns the
\* empty assignment, whatever the task list.
C8_ConfigurationErrorIffNoTasksForSomebody ==
    pc = "returned" =>
        /\ raised = "ValueError" <=> (operations = <<>> /\ remaining # <<>>)
        /\ raised \in {"none", "ValueError"}
        /\ remaining = <<>> => (raised = "none" /\ DOMAIN assignments = {})

C8_Witness ==
    /\ pc = "returned"
    /\ raised = "ValueError"
    /\ operations = <<>>
    /\ Len(remaining) = 2

CaseInsensitivelyUnique(ppl) ==
    \A i \in DOMAIN ppl, j \in DOMAIN ppl : i # j => casefold(ppl[i]) # casefold(ppl[j])

\* the people of the roster who are not excluded for the day
AvailablePeople == {p \in Range(people) : casefold(p) \notin day_excluded_lower}

\* the available people the history exclusion names
SoftExcludedPeople ==
    {p \in AvailablePeople : \E n \in history_excluded : casefold(n) = casefold(p)}

\* a person appears in a stored selection: equality of persons is case-insensitive
AppearsIn(person, selection) ==
    \E n \in Range(selection) : casefold(n) = casefold(person)

InBothStoredSelections(person) ==
    /\ Len(history) = 2
    /\ AppearsIn(person, history[1])
    /\ AppearsIn(person, history[2])

\* C2: somebody who appears in both stored selections is not selected for
\* help-desk, unless leaving all such people out of the available pool leaves
\* fewer than 2 candidates; with fewer than 2 stored selections nobody is
\* soft-excluded.
C2_SelectedInBothOnlyByFallback ==
    (pc = "selection" /\ raised = "none" /\ CaseInsensitivelyUnique(people)) =>
        /\ Len(history) < 2 => history_excluded = {}
        /\ \A p \in Range(selected) :
               InBothStoredSelections(p) =>
                   Cardinality({q \in AvailablePeople : ~InBothStoredSelections(q)}) < 2

HardExcluded(name) == casefold(name) \in day_excluded_lower

\* C1: nobody whose case-folded name is in the day's exclusion set is in the
\* help-desk selection, among those given operations, or in the onboarding
\* selection, the soft-exclusion fallback taken or not.
C1_HardExcludedNeverOnDuty ==
    /\ pc = "selection" =>
        /\ \A n \in Range(selected) : ~HardExcluded(n)
        /\ \A n \in DOMAIN assignments : ~HardExcluded(n)
        /\ \A n \in Range(remaining) : ~HardExcluded(n)
    /\ pc = "onboarding" => \A n \in Range(onboarding_people) : ~HardExcluded(n)

\* the fallback is taken and a member of the roster is left out for the day
C1_Witness ==
    /\ pc = "selection"
    /\ raised = "none"
    /\ \E p \in Range(people) : HardExcluded(p)
    /\ Cardinality(AvailablePeople \ SoftExcludedPeople) < 2
    /\ Range(selected) \cap SoftExcludedPeople # {}
    /\ Len(selected) = 2
    /\ DOMAIN assignments # {}

Min(a, b) == IF a <= b THEN a ELSE b

\* C3: for a roster of case-insensitively unique names, run_selection returns
\* min(2, |roster - hard exclusion|) different people of the roster.
C3_HelpdeskSelectionSize ==
    (pc = "selection" /\ raised = "none" /\ CaseInsensitivelyUnique(people)) =>
        /\ Len(selected) = Min(2, Cardinality(AvailablePeople))
        /\ Cardinality(Range(selected)) = Len(selected)
        /\ Range(selected) \subseteq AvailablePeople
        /\ \A i \in DOMAIN selected, j \in DOMAIN selected :
               i # j => casefold(selected[i]) # casefold(selected[j])

\* the soft exclusion would leave one candidate, and two are selected
C3_Witness ==
    /\ pc = "selection"
    /\ raised = "none"
    /\ CaseInsensitivelyUnique(people)
    /\ \E p \in Range(people) : HardExcluded(p)
    /\ Cardinality(AvailablePeople) = 3
    /\ Cardinality(AvailablePeople \ SoftExcludedPeople) = 1
    /\ Len(selected) = 2

\* C6: after n >= 1 successful saves, each given what the load before it
\* returned, a load returns the last min(2, n) saved selections, newest last;
\* the file never holds more than 2 selections.
C6_HistoryKeepsLastTwoSaves ==
    /\ (store.kind = "object" /\ store.sel_tag = "list") => Len(store.sel) <= 2
    /\ (pc = "loaded" /\ Len(saved) >= 1) =>
        /\ raised = "none"
        /\ history = SubSeq(saved, Len(saved) + 1 - Min(2, Len(saved)), Len(saved))

C6_Witness ==
    /\ pc = "loaded"
    /\ Len(saved) = 3
    /\ saved[1] # saved[2] /\ saved[2] # saved[3] /\ saved[1] # saved[3]
    /\ history = <<saved[2], saved[3]>>

\* C7: load_history never raises; whatever the file holds that is not a
\* well-formed record, it returns the defaults for the damaged part.
C7_LoadHistoryNeverRaises ==
    pc \in {"loaded", "loaded_str", "load_raised"} =>
        /\ raised = "none"
        /\ store.kind # "object" => (history = <<>> /\ DOMAIN last_ops.val = {})
        /\ (store.kind = "object" /\ store.sel_tag # "list") => history = <<>>
        /\ (store.kind = "object" /\ store.ops_tag # "dict") => DOMAIN last_ops.val = {}

\* C9: a run that hits the configuration error stops there: nothing is handed
\* to the delivery sink and the history file is what it was when the run began.
C9_ConfigurationErrorLeavesNoTrace ==
    /\ raised = "ValueError" => pc = "aborted"
    /\ pc = "aborted" =>
        /\ raised = "ValueError"
        /\ operations = <<>> /\ remaining # <<>>
        /\ posted = <<>>
        /\ delivery = "none"
        /\ store = store0

\* the aborted run had picked for help-desk, and the file holds two earlier picks
C9_Witness ==
    /\ pc = "aborted"
    /\ store.kind = "object"
    /\ Len(store.sel) = 2
    /\ DOMAIN store.ops # {}
    /\ Len(remaining) = 1

\* the record save_history writes for the run
RunRecord ==
    HistoryObject(Last2(Append(history, selected)),
                  IF DOMAIN assignments # {}
                  THEN [p \in DOMAIN assignments |->
                          [i \in DOMAIN assignments[p] |-> label(assignments[p][i])]]
                  ELSE last_ops.val)

\* C10: a failed delivery does not stop the run; after the delivery attempt,
\* whatever its outcome, the history write is attempted, not before it; and a
\* write that succeeds stores the run's record, the same for every outcome.
C10_DeliveryFailureDoesNotStopTheRun ==
    /\ delivery = "failed" => pc \in {"sent", "done"}
    /\ pc \in {"selected", "onboarded"} => (delivery = "none" /\ store = store0)
    /\ pc = "sent" =>
        /\ delivery \in {"ok", "failed", "skipped"}
        /\ store = store0
        /\ raised = "none"
    /\ pc = "done" =>
        /\ delivery \in {"ok", "failed", "skipped"}
        /\ raised \in {"none", "OSError"}
        /\ raised = "none" => store = RunRecord

C10_Witness ==
    /\ pc = "done"
    /\ delivery = "failed"
    /\ raised = "none"
    /\ Len(history) = 2
    /\ store = RunRecord
    /\ store.sel = <<history[2], selected>>
    /\ store # store0

\* the message main hands to send_to_slack
RunMessage == format_message(selected, assignments, onboarding_people, onboarding_type)

\* C11: a failed history write does not crash the run: the OSError is caught
\* in main, which ends normally, and by then send_to_slack has been called
\* with the run's message and has returned.
C11_WriteFailureDoesNotCrashTheRun ==
    /\ raised = "OSError" =>
        /\ pc = "done"
        /\ delivery \in {"ok", "failed", "skipped"}
        /\ delivery \in {"ok", "failed"} => posted = <<RunMessage>>
    /\ pc = "crashed" => raised # "OSError"

\* the write failed after the message was posted; the file is as it was
C11_Witness ==
    /\ pc = "done"
    /\ raised = "OSError"
    /\ delivery = "ok"
    /\ posted = <<RunMessage>>
    /\ Len(selected) = 2
    /\ store = store0

\* both processes have ended and both writes succeeded
BothSaved == \A p \in Processes : runs[p].pc = "done" /\ runs[p].raised = "none"

\* both processes loaded the file before either wrote it
BothLoadedFirst == \A p \in Processes, q \in Processes : runs[p].seen = runs[q].seen

\* the record process p writes, given the history on top of which it saves
RecordOf(p, hist) ==
    HistoryObject(new_history(runs[p].selected, hist),
                  new_ops(runs[p].assignments, runs[p].last_ops))

\* C12: no process ever ends in an error; when two processes both load the
\* file before either writes it and both writes succeed, the file holds the
\* record of one of them built on the commonly loaded history, without the
\* selection and the labels of the other; when one process loads after the
\* other has written, the file holds the selections of both.
C12_LostUpdateOnlyWhenRunsOverlap ==
    /\ pc = "concurrent" =>
           \A p \in Processes : runs[p].pc # "crashed" /\ runs[p].raised \in {"none", "OSError"}
    /\ (pc = "concurrent" /\ BothSaved) =>
        IF BothLoadedFirst
        THEN /\ runs[1].history = runs[2].history
             /\ \E p \in Processes : store = RecordOf(p, runs[p].history)
        ELSE \E p \in Processes, q \in Processes :
                /\ runs[p].seen < runs[q].seen
                /\ runs[q].history = new_history(runs[p].selected, runs[p].history)
                /\ store = RecordOf(q, new_history(runs[p].selected, runs[p].history))

\* the update is lost: the file holds neither order of the two selections
C12_Witness ==
    /\ pc = "concurrent"
    /\ BothSaved
    /\ BothLoadedFirst
    /\ runs[1].selected # runs[2].selected
    /\ DOMAIN runs[1].assignments # DOMAIN runs[2].assignments
    /\ store = RecordOf(2, runs[1].history)
    /\ store.sel # new_history(runs[2].selected, new_history(runs[1].selected, runs[1].history))
    /\ DOMAIN store.ops = DOMAIN runs[2].assignments

\* no two entries of the task list are the same task
NoTaskTwice(ops) == \A i \in DOMAIN ops, j \in DOMAIN ops : i # j => ops[i] # ops[j]

\* C13: with at least 2 tasks, a person whose stored labels cover every task
\* of the list is given, without an error, two different entries of the whole
\* list (two different tasks when no task is listed twice), and every pair of
\* different entries is a result the call can return.
C13_NoFreshTaskFallsBackToFullList ==
    /\ (pc = "returned" /\ Len(operations) >= 2) =>
        \A person \in Range(remaining) :
            FreshPositions(person) = {} =>
                /\ raised = "none"
                /\ \E i \in DOMAIN operations, j \in DOMAIN operations :
                       i # j /\ assignments[person] = <<operations[i], operations[j]>>
                /\ NoTaskTwice(operations) => assignments[person][1] # assignments[person][2]
    /\ (pc = "args" /\ Len(operations) >= 2) =>
        \A person \in Range(people) :
            FreshPositions(person) = {} =>
                \A i \in DOMAIN operations, j \in DOMAIN operations :
                    i # j =>
                        \E a \in AssignOutcomes(people, operations, last_ops) :
                            /\ a.raised = "none"
                            /\ a.value[person] = <<operations[i], operations[j]>>

\* both stored labels are on the list again, and nothing else is
C13_Witness ==
    /\ pc = "returned"
    /\ Len(operations) = 3
    /\ NoTaskTwice(operations)
    /\ Al \in Range(remaining)
    /\ Cardinality(StoredLabels(Al)) = 2
    /\ FreshPositions(Al) = {}
    /\ assignments[Al] = <<operations[3], operations[1]>>

\* the run before this one; it ended with its record written
PreviousRun == saved[Len(saved)]

LabelsOf(pair) == {label(pair[i]) : i \in DOMAIN pair}

DistinctlyLabelled(ops) ==
    \A i \in DOMAIN ops, j \in DOMAIN ops : i # j => label(ops[i]) # label(ops[j])

\* C14: a person for whom at least 2 tasks of the list are fresh is given 2
\* different tasks that are both fresh; and with a list of at least 4
\* differently labelled tasks, when the run before wrote its record, nobody is
\* given a task they were given in the run before.
C14_FreshPairAndNoRepeatNextRun ==
    (pc \in {"returned", "done"} /\ raised \in {"none", "OSError"} /\ Len(operations) >= 2) =>
        /\ \A person \in Range(remaining) :
               Cardinality(FreshPositions(person)) >= 2 =>
                   /\ \E i \in FreshPositions(person), j \in FreshPositions(person) :
                          i # j /\ assignments[person] = <<operations[i], operations[j]>>
                   /\ LabelsOf(assignments[person]) \cap StoredLabels(person) = {}
        /\ (/\ Len(saved) >= 1
            /\ Len(operations) >= 4
            /\ DistinctlyLabelled(operations)) =>
               \A person \in DOMAIN assignments \cap DOMAIN PreviousRun.assignments :
                   /\ Range(assignments[person]) \cap Range(PreviousRun.assignments[person]) = {}
                   /\ assignments[person][1] # assignments[person][2]

\* the same person is given tasks in two runs in a row
C14_Witness ==
    /\ pc = "done"
    /\ raised = "none"
    /\ Len(operations) = 4
    /\ Len(saved) = 2
    /\ DOMAIN assignments = {Bo}
    /\ DOMAIN PreviousRun.assignments = {Bo}
    /\ Bo \notin Range(saved[1].selected)
    /\ Range(assignments[Bo]) \cap Range(PreviousRun.assignments[Bo]) = {}

Folded(names) == {casefold(n) : n \in names}

\* the people left for operations: available and not selected for help-desk
LeftForOperations == {p \in AvailablePeople : casefold(p) \notin Folded(Range(selected))}

\* the reduced-operations rule takes 2 of those left
DownSelection == reduced_ops /\ Cardinality(Folded(LeftForOperations)) > 2

\* C15: nobody is both on help-desk and given operations; those given
\* operations are available people not selected, and when the reduced-
\* operations rule does not cut the list they are all of them, so that an
\* available person the history excludes is given operations unless selected,
\* which only the fallback can do.
C15_OperationsPoolIsAvailableMinusSelected ==
    (pc = "selection" /\ raised = "none") =>
        /\ Folded(Range(selected)) \cap Folded(DOMAIN assignments) = {}
        /\ DOMAIN assignments \subseteq LeftForOperations
        /\ DOMAIN assignments = Range(remaining)
        /\ ~DownSelection =>
            /\ Folded(DOMAIN assignments) = Folded(LeftForOperations)
            /\ \A p \in SoftExcludedPeople :
                   \/ casefold(p) \in Folded(DOMAIN assignments)
                   \/ /\ casefold(p) \in Folded(Range(selected))
                      /\ Cardinality(Folded(AvailablePeople \ SoftExcludedPeople)) < 2

\* somebody the history excludes is given operations, no fallback taken
C15_Witness ==
    /\ pc = "selection"
    /\ raised = "none"
    /\ ~reduced_ops
    /\ CaseInsensitivelyUnique(people)
    /\ Cardinality(AvailablePeople \ SoftExcludedPeople) >= 2
    /\ Len(selected) = 2
    /\ \E p \in SoftExcludedPeople : p \in DOMAIN assignments
    /\ \E p \in Range(people) : HardExcluded(p)

\* what run_selection can return on the arguments at hand, on a day that is
\* a reduced-operations day or not
OutcomesOnDay(reduced) ==
    RunSelectionOutcomes(people, operations, get_excluded_people(history),
                         day_excluded_lower, reduced, last_ops)

\* of each result: the exception, the help-desk selection, who is given tasks
Summary(outcomes) == {<<r.raised, r.selected, DOMAIN r.assignments>> : r \in outcomes}

\* C16: on a reduced-operations day with more than 2 people left after the
\* help-desk selection, exactly 2 of them are given operations, any 2 of them
\* possibly; with 2 or fewer left, or on another day, all of them are.  The
\* help-desk selections that can come out are the same on either kind of day.
C16_ReducedOperationsDay ==
    /\ (pc = "selection" /\ raised = "none") =>
        /\ DOMAIN assignments \subseteq LeftForOperations
        /\ IF DownSelection
           THEN Cardinality(DOMAIN assignments) = 2
           ELSE Folded(DOMAIN assignments) = Folded(LeftForOperations)
    /\ pc = "args" =>
        LET reduced_day == Summary(OutcomesOnDay(TRUE))
            other_day == Summary(OutcomesOnDay(FALSE))
        IN /\ {<<r[1], r[2]>> : r \in reduced_day} = {<<r[1], r[2]>> : r \in other_day}
           /\ \A r \in other_day :
                  (r[1] = "none" /\ Cardinality(r[3]) > 2) =>
                      \A two \in SUBSET r[3] :
                          Cardinality(two) = 2 => <<"none", r[2], two>> \in reduced_day

\* 3 people are left of 5, and 2 of them are given operations
C16_Witness ==
    /\ pc = "selection"
    /\ raised = "none"
    /\ reduced_ops
    /\ operations # <<>>
    /\ Len(selected) = 2
    /\ Cardinality(LeftForOperations) = 3
    /\ Cardinality(DOMAIN assignments) = 2
    /\ history_excluded # {}

\* the labels of the pair a person is given in this run
AssignedLabels(person) ==
    [i \in DOMAIN assignments[person] |-> label(assignments[person][i])]

\* C17, as claimed: after a run that ended with its record written, last_ops
\* in the file maps each person to exactly 2 labels, those of the tasks the
\* person was given in that run.
C17_StoredOpsAreOfTheLatestRun ==
    (pc = "done" /\ raised = "none") =>
        \A person \in DOMAIN store.ops :
            /\ Len(store.ops[person]) = 2
            /\ person \in DOMAIN assignments
            /\ store.ops[person] = AssignedLabels(person)

\* C17, amended: after a run that gave operations to somebody and ended with
\* its record written, last_ops in the file maps the people given operations
\* in that run, and nobody else, to the 2 labels of their tasks; after a run
\* that gave operations to nobody it is the last_ops that run loaded.
C17_StoredOpsAreOfTheLatestRunThatAssigned ==
    (pc = "done" /\ raised = "none") =>
        /\ store.kind = "object" /\ store.ops_tag = "dict"
        /\ IF DOMAIN assignments # {}
           THEN /\ DOMAIN store.ops = DOMAIN assignments
                /\ \A person \in DOMAIN store.ops :
                       /\ Len(store.ops[person]) = 2
                       /\ store.ops[person] = AssignedLabels(person)
           ELSE store.ops = last_ops.val

\* the labels of the run before, of somebody else, are replaced
C17_Witness ==
    /\ pc = "done"
    /\ raised = "none"
    /\ Len(operations) = 2
    /\ DOMAIN assignments # {}
    /\ DOMAIN last_ops.val # {}
    /\ DOMAIN last_ops.val \cap DOMAIN assignments = {}
    /\ DOMAIN store.ops = DOMAIN assignments
    /\ \E person \in DOMAIN assignments :
           store.ops[person] # assignments[person]

\* C18: save_history given assignments writes as last_ops the case-folded
\* display labels of the pairs of the people in them, and of nobody else;
\* given none, it writes the last_ops that was loaded; either way the
\* selection is appended to the loaded selections, of which the last 2 stay.
C18_SaveReplacesOrCarriesLastOps ==
    (pc = "saved" /\ raised = "none") =>
        /\ store.kind = "object" /\ store.sel_tag = "list" /\ store.ops_tag = "dict"
        /\ store.sel = Last2(Append(history, selected))
        /\ store.sel[Len(store.sel)] = selected
        /\ IF DOMAIN assignments # {}
           THEN /\ DOMAIN store.ops = DOMAIN assignments
                /\ \A person \in DOMAIN assignments :
                       store.ops[person] = AssignedLabels(person)
           ELSE store.ops = last_ops.val

\* the labels loaded were of somebody else, and are dropped
C18_Witness ==
    /\ pc = "saved"
    /\ raised = "none"
    /\ DOMAIN last_ops.val = {Al}
    /\ assignments = Bo :> <<TA, Tb>>
    /\ store.ops = Bo :> <<<<"a">>, <<"b">>>>
    /\ Len(history) = 2
    /\ store.sel = <<history[2], selected>>

\* the entries of the schedule that name today, case aside
EntriesForToday ==
    {i \in DOMAIN env.onboarding_schedule :
        /\ Len(env.onboarding_schedule[i]) = 2
        /\ casefold(strip(env.onboarding_schedule[i][1])) = casefold(env.today)}

AvailableIn(e) ==
    {p \in Range(get_config_list(e.people_env, e.PEOPLE)) :
        casefold(p) \notin day_exclusions_lower(e.day_exclusions)}

\* on help-desk in this run and in the two runs before it
ThreeInARow(person) ==
    /\ Len(saved) = 2
    /\ AppearsIn(person, saved[1].selected)
    /\ AppearsIn(person, saved[2].selected)
    /\ AppearsIn(person, selected)

\* C20: in runs one after the other under one roster, each ended with its
\* record written, nobody is on help-desk three runs in a row when 4 or more
\* people are available; with 3 available it happens, by the fallback only:
\* after two runs with the same two people on help-desk, each of the two can
\* be selected again.
C20_NoThirdHelpdeskRunInARow ==
    /\ (pc = "done" /\ raised = "none") =>
        \A p \in Range(selected) :
            ThreeInARow(p) =>
                /\ Cardinality(AvailablePeople) < 4
                /\ Cardinality(AvailablePeople \ SoftExcludedPeople) < 2
    /\ (/\ pc = "idle"
        /\ Len(saved) = 2
        /\ Cardinality(AvailableIn(env)) = 3
        /\ Range(saved[1].selected) = Range(saved[2].selected)) =>
           \A p \in Range(saved[2].selected) :
               \E o \in MainOutcomes(env, store) :
                   /\ o.pc = "done" /\ o.raised = "none"
                   /\ p \in Range(o.selected)

\* of 4 people one was on help-desk twice in a row and is left out the third
\* time, the other three being eligible
C20_Witness ==
    /\ pc = "done"
    /\ raised = "none"
    /\ Len(saved) = 2
    /\ Cardinality(AvailablePeople) = 4
    /\ \E p \in AvailablePeople :
           /\ AppearsIn(p, saved[1].selected)
           /\ AppearsIn(p, saved[2].selected)
           /\ history_excluded = {p}
           /\ ~AppearsIn(p, selected)
           /\ p \in DOMAIN assignments

\* with 3 people available somebody is on help-desk a third time in a row
C20_ThirdRunReached ==
    /\ pc = "done"
    /\ raised = "none"
    /\ Cardinality(AvailablePeople) = 3
    /\ \E p \in Range(selected) : ThreeInARow(p)

====
